---- MODULE Spec2Model ----
(***************************************************************************)
(* A model of the RFC 6455 frame codec of pristineio/wsp: the class        *)
(* Rfc6455Protocol (decoder: transform / extractHeader / emitFrame,        *)
(* encoder: _buildFrame / _applyMask and the generated build<Op>Frame      *)
(* methods).  Buffers are sequences of bytes (0..255), 1-indexed here and  *)
(* 0-indexed in the source; null is the empty sequence <<>> for header.mask*)
(* and the options header / payload are <<>> (null) or <<value>>.          *)
(***************************************************************************)
EXTENDS Integers, Sequences, FiniteSets, TLC

(***************************************************************************)
(* Bounds of the model.                                                    *)
(***************************************************************************)
\* the largest number of frames in the byte stream fed to the decoder, and
\* the largest number of bytes in it
MaxFrames == 2
MaxStreamLen == 19
\* the decoder is not fed any more once it has raised this many 'error' events
MaxErrorEvents == 2
\* the largest number of codec instances constructed
MaxInstances == 2
\* payloads handed to the encoder have a length in 0..MaxSmallLen or one of
\* the lengths around the 7-bit / 16-bit boundary
MaxSmallLen == 2
\* the longest buffer handed to _applyMask on its own
MaxMaskLen == 5
\* the largest number of writes to the socket a WebSocket is asked for
MaxSocketWrites == 2
\* the number of nested calls of extractHeader the call stack holds (small,
\* as the streams are; an engine's stack holds some thousands)
MaxCallDepth == 3

(***************************************************************************)
(* Program constants.                                                      *)
(***************************************************************************)
FIN == 128
RSV == 112
BYTE == 255
MASK == 128
OPCODE == 15
LENGTH == 127

CONTINUATION == 0
TEXT == 1
BINARY == 2
CLOSE == 8
PING == 9
PONG == 10

OPCODES == {CONTINUATION, TEXT, BINARY, CLOSE, PING, PONG}

\* a table that also marks opcode 3 as valid
VALID_OPCODES_With3(op) == IF op \in {0, 1, 2, 3, 8, 9, 10} THEN 1 ELSE 0

\* VALID_OPCODES[op] === 1 (an index outside the array reads undefined)
VALID_OPCODES(op) == IF op \in {0, 1, 2, 8, 9, 10} THEN 1 ELSE 0

\* a FRAGMENTED_OPCODES without CONTINUATION: a continuation frame with
\* FIN = 0 counts as a violation
FRAGMENTED_OPCODES_NoContinuation(op) == IF op \in {1, 2} THEN 1 ELSE 0

\* FRAGMENTED_OPCODES[op] (an index outside the array reads undefined, not 1)
FRAGMENTED_OPCODES(op) == IF op \in {0, 1, 2} THEN 1 ELSE 0

(***************************************************************************)
(* JavaScript operators on non-negative integers: a & b, a | b, a ^ b.     *)
(***************************************************************************)
RECURSIVE BitAnd(_, _)
BitAnd(a, b) ==
  IF a = 0 \/ b = 0 THEN 0
  ELSE (a % 2) * (b % 2) + 2 * BitAnd(a \div 2, b \div 2)

RECURSIVE BitOr(_, _)
BitOr(a, b) ==
  IF a = 0 THEN b
  ELSE IF b = 0 THEN a
  ELSE (IF a % 2 = 1 \/ b % 2 = 1 THEN 1 ELSE 0) + 2 * BitOr(a \div 2, b \div 2)

RECURSIVE BitXor(_, _)
BitXor(a, b) ==
  IF a = 0 THEN b
  ELSE IF b = 0 THEN a
  ELSE ((a + b) % 2) + 2 * BitXor(a \div 2, b \div 2)

(***************************************************************************)
(* Buffers.                                                                *)
(***************************************************************************)
Min(a, b) == IF a <= b THEN a ELSE b
Max(a, b) == IF a >= b THEN a ELSE b

\* Buffer.alloc(n): n zero bytes
Alloc(n) == [i \in 1..n |-> 0]

\* buf.slice(start, end) with 0-based bounds; a negative bound counts from
\* the end of the buffer, and both are clamped to the buffer
SliceIdx(len, k) == IF k < 0 THEN Max(len + k, 0) ELSE Min(k, len)
Slice(buf, start, end) ==
  LET s == SliceIdx(Len(buf), start)
      e == SliceIdx(Len(buf), end)
  IN  IF e <= s THEN <<>> ELSE SubSeq(buf, s + 1, e)

\* buf.slice(start)
SliceFrom(buf, start) == Slice(buf, start, Len(buf))

\* src.copy(target, targetStart): overwrite target from the 0-based offset
\* targetStart with as many bytes of src as fit
CopyInto(src, target, targetStart) ==
  [i \in 1..Len(target) |->
     IF i > targetStart /\ i - targetStart <= Len(src)
       THEN src[i - targetStart]
       ELSE target[i]]

\* buf.readUInt16BE(offset), 0-based offset
readUInt16BE(buf, offset) == buf[offset + 1] * 256 + buf[offset + 2]

(***************************************************************************)
(* IEEE 754 doubles, as far as the codec needs them.  buf.readDoubleBE     *)
(* yields a number that the code compares with Number.MAX_SAFE_INTEGER     *)
(* (2^53 - 1) and uses as a length.  The value is classified:              *)
(*   "int"   a non-negative integer below 2^31 (val is the integer)        *)
(*   "tiny"  a positive number below 2^-50 (val = 0): x + tiny = x for     *)
(*           every offset x >= 2 the code adds it to                       *)
(*   "big"   a number >= 2^53 - 1, +Infinity included                      *)
(*   "other" anything else: negative, NaN, another fraction, or an         *)
(*           integer in 2^31 .. 2^53 - 2                                   *)
(***************************************************************************)
RECURSIVE Pow2(_)
Pow2(n) == IF n = 0 THEN 1 ELSE 2 * Pow2(n - 1)

\* the 8 bits of a byte, most significant first
ByteBits(b) == [i \in 1..8 |-> (b \div Pow2(8 - i)) % 2]

\* the 64 bits of 8 bytes, most significant first
Bits64(bytes) == [i \in 1..64 |-> ByteBits(bytes[((i - 1) \div 8) + 1])[((i - 1) % 8) + 1]]

\* the unsigned value of the bits s[from..to] (at most 30 of them)
RECURSIVE BitsVal(_, _, _)
BitsVal(s, from, to) ==
  IF to < from THEN 0 ELSE 2 * BitsVal(s, from, to - 1) + s[to]

AllZero(s, from, to) == \A i \in from..to : s[i] = 0
AllOne(s, from, to) == \A i \in from..to : s[i] = 1

\* buf.readDoubleBE(offset), 0-based offset
readDoubleBE(buf, offset) ==
  LET bits == Bits64(SubSeq(buf, offset + 1, offset + 8))
      sign == bits[1]
      expo == BitsVal(bits, 2, 12)
      e    == expo - 1023
      \* the mantissa is bits[13..64]
      zeroMant == AllZero(bits, 13, 64)
  IN  IF expo = 2047
        THEN IF zeroMant /\ sign = 0 THEN [cls |-> "big", val |-> 0]
             ELSE [cls |-> "other", val |-> 0]
      ELSE IF expo = 0 /\ zeroMant THEN [cls |-> "int", val |-> 0]
      ELSE IF sign = 1 THEN [cls |-> "other", val |-> 0]
      ELSE IF e <= -51 THEN [cls |-> "tiny", val |-> 0]
      ELSE IF e < 0 THEN [cls |-> "other", val |-> 0]
      ELSE IF e >= 53 THEN [cls |-> "big", val |-> 0]
      ELSE IF e = 52
        THEN IF AllOne(bits, 13, 64) THEN [cls |-> "big", val |-> 0]
             ELSE [cls |-> "other", val |-> 0]
      ELSE IF ~AllZero(bits, 13 + e, 64) THEN [cls |-> "other", val |-> 0]
      ELSE IF e > 30 THEN [cls |-> "other", val |-> 0]
      ELSE [cls |-> "int", val |-> Pow2(e) + BitsVal(bits, 13, 12 + e)]

\* floor(log2(n)) for n >= 1
RECURSIVE Log2(_)
Log2(n) == IF n <= 1 THEN 0 ELSE 1 + Log2(n \div 2)

\* the 8 bytes buf.writeDoubleBE(n, ...) writes for an integer 0 <= n < 2^31
writeDoubleBE(n) ==
  LET e    == Log2(n)
      expo == IF n = 0 THEN 0 ELSE e + 1023
      frac == IF n = 0 THEN 0 ELSE n - Pow2(e)
      bits == [i \in 1..64 |->
                 IF i = 1 THEN 0
                 ELSE IF i <= 12 THEN (expo \div Pow2(12 - i)) % 2
                 ELSE IF n # 0 /\ i - 12 <= e THEN (frac \div Pow2(e - (i - 12))) % 2
                 ELSE 0]
  IN  [k \in 1..8 |-> BitsVal(bits, 8 * (k - 1) + 1, 8 * k)]

(***************************************************************************)
(* Rfc6455Protocol: masking and the encoder.                               *)
(***************************************************************************)
\* a masker that indexes the key by the position in the buffer, mask[x % 4],
\* instead of the position behind the offset
_applyMask_AbsoluteIndex(payload, mask, offset) ==
  IF Len(mask) = 0 THEN payload
  ELSE [x \in 1..Len(payload) |->
          IF x - 1 >= offset
            THEN BitXor(payload[x], mask[((x - 1) % 4) + 1])
            ELSE payload[x]]

\* a masker that starts at index 0 whatever the offset (x = i in place of
\* x = offset + i)
_applyMask_IgnoreOffset(payload, mask, offset) ==
  IF Len(mask) = 0 THEN payload
  ELSE [x \in 1..Len(payload) |->
          IF x - 1 < Len(payload) - offset
            THEN BitXor(payload[x], mask[((x - 1) % 4) + 1])
            ELSE payload[x]]

\* _applyMask(payload, mask, offset): the payload after the in-place XOR.
\* mask = <<>> is a null or empty mask.
_applyMask(payload, mask, offset) ==
  IF Len(mask) = 0 THEN payload
  ELSE [x \in 1..Len(payload) |->
          IF x - 1 >= offset
            THEN LET i == x - 1 - offset
                     m == IF (i % 4) + 1 <= Len(mask) THEN mask[(i % 4) + 1] ELSE 0
                 IN  BitXor(payload[x], m)
            ELSE payload[x]]

\* an encoder that switches to the 16-bit length form at 125 already
\* (length < 125 in place of length <= 125)
_buildFrame_Below125(isMasking, buffer, opcode, mask) ==
  LET length == Len(buffer)
      header == IF length < 125 THEN 2 ELSE IF length <= 65535 THEN 4 ELSE 10
      offset == header + (IF isMasking THEN 4 ELSE 0)
      masked == IF isMasking THEN MASK ELSE 0
      b0     == BitOr(FIN, opcode)
      head   == IF length < 125
                  THEN <<b0, BitOr(masked, length)>>
                ELSE IF length <= 65535
                  THEN <<b0, BitOr(masked, 126), length \div 256, BitAnd(length, BYTE)>>
                ELSE <<b0, BitOr(masked, 127)>> \o writeDoubleBE(length)
      wsFrame0 == head \o Alloc(offset - header) \o buffer
  IN  IF isMasking
        THEN _applyMask(CopyInto(mask, wsFrame0, header), mask, offset)
        ELSE wsFrame0

\* _buildFrame(buffer, opcode) of an instance whose isMasking is given;
\* mask is what crypto.randomBytes(4) returns.  Lengths are below 2^31 here,
\* so the Number.MAX_SAFE_INTEGER guard never fires.
_buildFrame(isMasking, buffer, opcode, mask) ==
  LET length == Len(buffer)
      header == IF length <= 125 THEN 2 ELSE IF length <= 65535 THEN 4 ELSE 10
      offset == header + (IF isMasking THEN 4 ELSE 0)
      masked == IF isMasking THEN MASK ELSE 0
      b0     == BitOr(FIN, opcode)
      head   == IF length <= 125
                  THEN <<b0, BitOr(masked, length)>>
                ELSE IF length <= 65535
                  THEN <<b0, BitOr(masked, 126), length \div 256, BitAnd(length, BYTE)>>
                ELSE <<b0, BitOr(masked, 127)>> \o writeDoubleBE(length)
      wsFrame0 == head \o Alloc(offset - header) \o buffer
  IN  IF isMasking
        THEN _applyMask(CopyInto(mask, wsFrame0, header), mask, offset)
        ELSE wsFrame0

(***************************************************************************)
(* Rfc6455Protocol: the decoder.  A decoder value d is the instance's      *)
(* fields state, headerBuffer, header, payload, bytesCopied, together with *)
(* what it has done to its surroundings: listenerCalls (the calls of       *)
(* this.listener, each <<opcode, payload>>), errorEvents (the messages of  *)
(* the 'error' events emitted) and thrown (an exception left transform).   *)
(***************************************************************************)
\* a reset that forgets the header of the frame just emitted
_initialize_KeepHeader(d) ==
  [d EXCEPT !.bytesCopied = 0,
            !.state = 0,
            !.payload = <<>>,
            !.headerBuffer = <<>>]

\* _initialize(): the fields after a reset (canPush is never read)
_initialize(d) ==
  [d EXCEPT !.bytesCopied = 0,
            !.state = 0,
            !.header = <<>>,
            !.payload = <<>>,
            !.headerBuffer = <<>>]

\* the decoder a constructor leaves behind
NewDecoder ==
  [state |-> 0, headerBuffer |-> <<>>, header |-> <<>>, payload |-> <<>>,
   bytesCopied |-> 0, listenerCalls |-> <<>>, errorEvents |-> <<>>,
   thrown |-> FALSE]

\* an emitFrame that hands the payload to the listener as it came, masked
emitFrame_NoUnmask(d) ==
  _initialize([d EXCEPT !.listenerCalls = Append(@, <<d.header[1].opcode, d.payload[1]>>)])

\* emitFrame(): unmask, call the listener, reset.  No 'readable' listener is
\* attached anywhere in the repository, so nothing is pushed.
emitFrame(d) ==
  LET h == d.header[1]
      p == IF h.isMasked THEN _applyMask(d.payload[1], h.mask, 0) ELSE d.payload[1]
  IN  _initialize([d EXCEPT !.listenerCalls = Append(@, <<h.opcode, p>>)])

\* the header record extractHeader builds from the two base header bytes
BaseHeader(b0, b1) ==
  LET opcode == BitAnd(b0, OPCODE)
      isMasked == BitAnd(b1, MASK) = MASK
  IN  [mask |-> <<>>,
       reservedBitsZero |-> BitAnd(b0, RSV) = 0,
       isFinal |-> BitAnd(b0, FIN) = FIN,
       opcode |-> opcode,
       validOpcode |-> VALID_OPCODES(opcode) = 1,
       isContinuation |-> opcode = 0,
       isMasked |-> isMasked,
       payloadLength |-> BitAnd(b1, LENGTH),
       payloadOffset |-> IF isMasked THEN 6 ELSE 2]

\* emit('error', new Error(msg)) and return
RaiseError(d, msg) == [d EXCEPT !.errorEvents = Append(@, msg)]

\* an end of extractHeader that emits only frames with a payload at once and
\* leaves a frame with an empty payload to the next delivery
FinishFrame_LateEmpty(d, remainder) ==
  IF d.bytesCopied = d.header[1].payloadLength /\ d.bytesCopied > 0
    THEN <<emitFrame(d), remainder>>
    ELSE <<[d EXCEPT !.state = 1], <<>>>>

\* an end of extractHeader that forgets to enter state 1
FinishFrame_NoState1(d, remainder) ==
  IF d.bytesCopied = d.header[1].payloadLength
    THEN <<emitFrame(d), remainder>>
    ELSE <<d, <<>>>>

\* an end of extractHeader that turns down a control frame with more than
\* 125 bytes of payload
FinishFrame_PoliceControl(d, remainder) ==
  IF d.header[1].opcode \in {CLOSE, PING, PONG} /\ d.header[1].payloadLength > 125
    THEN <<RaiseError(d, "Control frame too long"), <<>>>>
  ELSE IF d.bytesCopied = d.header[1].payloadLength
    THEN <<emitFrame(d), remainder>>
    ELSE <<[d EXCEPT !.state = 1], <<>>>>

\* the end of extractHeader: emit the frame when its payload is complete,
\* else enter state 1.  Yields <<decoder, remainder>>, the remainder being
\* the bytes behind an emitted frame, which extractHeader goes on with.
FinishFrame(d, remainder) ==
  IF d.bytesCopied = d.header[1].payloadLength
    THEN <<emitFrame(d), remainder>>
    ELSE <<[d EXCEPT !.state = 1], <<>>>>

\* the part of extractHeader from "Extract mask" on: d.header holds the
\* resolved payloadLength and payloadOffset and d.headerBuffer reaches the
\* payload.  Yields <<decoder, remainder>> as FinishFrame does.
ExtractPayload(d) ==
  LET hb  == d.headerBuffer
      h0  == d.header[1]
      off == h0.payloadOffset
      len == h0.payloadLength
      h   == [h0 EXCEPT !.mask = CopyInto(Slice(hb, off - 4, off), Alloc(4), 0)]
      frameEnd == len + off
      whole   == Len(hb) >= frameEnd
      payload == IF whole THEN CopyInto(Slice(hb, off, frameEnd), Alloc(len), 0)
                 ELSE IF off < Len(hb) THEN CopyInto(SliceFrom(hb, off), Alloc(len), 0)
                 ELSE Alloc(len)
      bytesCopied == IF whole THEN len
                     ELSE IF off < Len(hb) THEN d.bytesCopied + (Len(hb) - off)
                     ELSE d.bytesCopied
      remainder == IF whole THEN SliceFrom(hb, frameEnd) ELSE <<>>
      d1 == [d EXCEPT !.header = <<h>>, !.payload = <<payload>>,
                      !.bytesCopied = bytesCopied]
  IN  FinishFrame(d1, remainder)

\* extractHeader(chunk), depth being the number of calls of extractHeader
\* on the call stack, this one included: behind each frame it emits,
\* extractHeader calls itself with the remainder and returns when that call
\* has returned.  The call stack holds MaxCallDepth of these calls; the call
\* that does not fit ends with a RangeError, which leaves transform.
RECURSIVE extractHeader(_, _, _)
extractHeader(d, chunk, depth) ==
  LET hb == d.headerBuffer \o chunk
      d0 == [d EXCEPT !.headerBuffer = hb]
  IN
  IF depth > MaxCallDepth THEN [d EXCEPT !.thrown = TRUE]
  ELSE IF Len(hb) < 2 THEN d0
  ELSE
    LET h  == BaseHeader(hb[1], hb[2])
        d1 == [d0 EXCEPT !.header = <<h>>]
    IN
    IF ~h.reservedBitsZero THEN RaiseError(d1, "RSV not zero")
    ELSE IF ~h.validOpcode THEN RaiseError(d1, "Invalid opcode")
    ELSE IF FRAGMENTED_OPCODES(h.opcode) # 1 /\ ~h.isFinal
      THEN RaiseError(d1, "Expected non-final packet")
    ELSE
      LET ext  == IF h.payloadLength = 126 THEN 2
                  ELSE IF h.payloadLength = 127 THEN 8 ELSE 0
          off  == h.payloadOffset + ext
          hOff == [h EXCEPT !.payloadOffset = off]
          dOff == [d0 EXCEPT !.header = <<hOff>>]
      IN
      IF Len(hb) < off THEN dOff
      ELSE
        LET dbl == IF ext = 8 THEN readDoubleBE(hb, 2) ELSE [cls |-> "int", val |-> 0]
            len == IF ext = 2 THEN readUInt16BE(hb, 2)
                   ELSE IF ext = 8 THEN dbl.val
                   ELSE h.payloadLength
            dLen == [d0 EXCEPT !.header = <<[hOff EXCEPT !.payloadLength = len]>>]
        IN
        IF ext = 8 /\ dbl.cls = "big"
          THEN RaiseError(dLen, "Unsupported UInt64 length")
        ELSE IF ext = 8 /\ dbl.cls = "other"
          \* Buffer.alloc rejects the length, or the length is no integer
          THEN [dLen EXCEPT !.header[1].mask = CopyInto(Slice(hb, off - 4, off), Alloc(4), 0),
                            !.thrown = TRUE]
        ELSE
          LET r == ExtractPayload(dLen)
          IN  IF r[1].state = 0 /\ Len(r[2]) > 0
                THEN extractHeader(r[1], r[2], depth + 1)
                ELSE r[1]

\* a transform that, in state 1, drops the bytes behind the end of the
\* payload instead of going on with them
transform_DropRemainder(d, chunk) ==
  IF d.state = 0 THEN extractHeader(d, chunk, 1)
  ELSE
    LET h == d.header[1]
        j == Min(Len(chunk), h.payloadLength - d.bytesCopied)
        payload == CopyInto(Slice(chunk, 0, j), d.payload[1], d.bytesCopied)
        d1 == [d EXCEPT !.payload = <<payload>>, !.bytesCopied = @ + j]
    IN  IF d1.bytesCopied = h.payloadLength THEN emitFrame(d1) ELSE d1

\* a transform that, in state 1, goes on with the bytes behind the payload
\* first and calls the listener for the completed frame after that
transform_EmitAfterRemainder(d, chunk) ==
  IF d.state = 0 THEN extractHeader(d, chunk, 1)
  ELSE
    LET h == d.header[1]
        j == Min(Len(chunk), h.payloadLength - d.bytesCopied)
        payload == CopyInto(Slice(chunk, 0, j), d.payload[1], d.bytesCopied)
        d1 == [d EXCEPT !.payload = <<payload>>, !.bytesCopied = @ + j]
        remainder == SliceFrom(chunk, j)
        unmasked == IF h.isMasked THEN _applyMask(payload, h.mask, 0) ELSE payload
    IN  IF d1.bytesCopied = h.payloadLength
          THEN LET d2 == IF Len(remainder) > 0
                           THEN extractHeader(_initialize(d1), remainder, 1)
                           ELSE _initialize(d1)
               IN  [d2 EXCEPT !.listenerCalls = Append(@, <<h.opcode, unmasked>>)]
          ELSE d1

\* a transform that, in state 1, copies the whole chunk and counts all of
\* its bytes, whatever the payload still lacks
transform_NoMin(d, chunk) ==
  IF d.state = 0 THEN extractHeader(d, chunk, 1)
  ELSE
    LET h == d.header[1]
        j == Len(chunk)
        payload == CopyInto(Slice(chunk, 0, j), d.payload[1], d.bytesCopied)
        d1 == [d EXCEPT !.payload = <<payload>>, !.bytesCopied = @ + j]
        remainder == SliceFrom(chunk, j)
    IN  IF d1.bytesCopied = h.payloadLength
          THEN LET d2 == emitFrame(d1)
               IN  IF Len(remainder) > 0 THEN extractHeader(d2, remainder, 1) ELSE d2
          ELSE d1

\* the transform function of the stream: one delivery of a chunk
transform(d, chunk) ==
  IF d.state = 0 THEN extractHeader(d, chunk, 1)
  ELSE
    LET h == d.header[1]
        j == Min(Len(chunk), h.payloadLength - d.bytesCopied)
        payload == CopyInto(Slice(chunk, 0, j), d.payload[1], d.bytesCopied)
        d1 == [d EXCEPT !.payload = <<payload>>, !.bytesCopied = @ + j]
        remainder == SliceFrom(chunk, j)
    IN  IF d1.bytesCopied = h.payloadLength
          THEN LET d2 == emitFrame(d1)
               IN  IF Len(remainder) > 0 THEN extractHeader(d2, remainder, 1) ELSE d2
          ELSE d1

(***************************************************************************)
(* The byte streams the decoder is fed.  A frame on the wire is described  *)
(* by its header bits, its length form (7, 16 or 64: the 64-bit form holds *)
(* the eight bytes ext8), its mask key and its payload before masking.     *)
(***************************************************************************)
Frame(fin, rsv, opcode, masked, form, payload) ==
  [fin |-> fin, rsv |-> rsv, opcode |-> opcode, masked |-> masked,
   form |-> form, key |-> <<55, 250, 33, 61>>, payload |-> payload,
   ext8 |-> <<>>]

\* 2^53 as a double: 43 40 00 00 00 00 00 00
TwoTo53 == <<67, 64, 0, 0, 0, 0, 0, 0>>

ValidFrames ==
  { Frame(1, 0, CLOSE, FALSE, 7, <<3, 232>>),
    Frame(1, 0, PING, FALSE, 7, <<>>),
    Frame(1, 0, TEXT, TRUE, 7, <<72, 105>>),
    Frame(1, 0, BINARY, FALSE, 16, <<200>>),
    Frame(0, 0, CONTINUATION, TRUE, 7, <<>>),
    Frame(0, 0, BINARY, TRUE, 16, <<255>>),
    Frame(1, 0, PONG, FALSE, 16, <<>>) }

InvalidFrames ==
  { Frame(1, 4, TEXT, FALSE, 7, <<97>>),
    Frame(1, 0, 3, FALSE, 7, <<>>),
    Frame(0, 0, PING, TRUE, 7, <<98>>),
    Frame(0, 0, 11, TRUE, 16, <<>>),
    [Frame(1, 0, BINARY, FALSE, 64, <<>>) EXCEPT !.ext8 = TwoTo53] }

\* the bytes of a frame on the wire
Wire(f) ==
  LET len  == Len(f.payload)
      len7 == IF f.form = 7 THEN len ELSE IF f.form = 16 THEN 126 ELSE 127
      b0   == f.fin * 128 + f.rsv * 16 + f.opcode
      b1   == (IF f.masked THEN 128 ELSE 0) + len7
      ext  == IF f.form = 7 THEN <<>>
              ELSE IF f.form = 16 THEN <<len \div 256, len % 256>>
              ELSE f.ext8
      body == [i \in 1..len |->
                 IF f.masked THEN BitXor(f.payload[i], f.key[((i - 1) % 4) + 1])
                 ELSE f.payload[i]]
  IN  <<b0, b1>> \o ext \o (IF f.masked THEN f.key ELSE <<>>) \o body

RECURSIVE Stream(_)
Stream(fs) == IF fs = <<>> THEN <<>> ELSE Wire(Head(fs)) \o Stream(Tail(fs))

\* the stream offset behind frame i, and the offset of its first byte
RECURSIVE FrameEnd(_, _)
FrameEnd(fs, i) == IF i = 0 THEN 0 ELSE FrameEnd(fs, i - 1) + Len(Wire(fs[i]))
FrameStart(fs, i) == FrameEnd(fs, i - 1)

\* the index of the first frame the decoder must reject, or Len(fs) + 1
FirstInvalid(fs) ==
  IF \E i \in 1..Len(fs) : fs[i] \in InvalidFrames
    THEN CHOOSE i \in 1..Len(fs) :
           /\ fs[i] \in InvalidFrames
           /\ \A j \in 1..(i - 1) : fs[j] \notin InvalidFrames
    ELSE Len(fs) + 1

\* the two base header bytes of the frame have an RSV bit set, an opcode
\* outside the six valid ones, or a control opcode with FIN = 0
BadBaseHeader(f) ==
  \/ f.rsv # 0
  \/ f.opcode \notin OPCODES
  \/ (f.opcode \in {CLOSE, PING, PONG} /\ f.fin = 0)

\* the (opcode, payload) pairs of the first k frames
Pairs(fs, k) == [i \in 1..k |-> <<fs[i].opcode, fs[i].payload>>]

\* how many of the frames in front of the first invalid one end at or
\* before stream offset p
Completed(fs, p) ==
  Cardinality({i \in 1..(FirstInvalid(fs) - 1) : FrameEnd(fs, i) <= p})

RECURSIVE SeqsUpTo(_, _)
SeqsUpTo(S, n) ==
  IF n = 0 THEN {<<>>}
  ELSE LET shorter == SeqsUpTo(S, n - 1)
       IN  shorter \cup {Append(s, x) : s \in shorter, x \in S}

\* the streams fed: up to MaxFrames frames and MaxStreamLen bytes, valid
\* frames and at most one invalid one, which comes last (the decoder never
\* gets past it)
FrameSeqs ==
  LET valid == SeqsUpTo(ValidFrames, MaxFrames)
      all   == valid \cup {Append(s, x) : s \in {v \in valid : Len(v) < MaxFrames},
                                          x \in InvalidFrames}
  IN  {fs \in all : Len(Stream(fs)) <= MaxStreamLen}

(***************************************************************************)
(* State.                                                                  *)
(***************************************************************************)
VARIABLES
  \* the decoder instance (this.state, this.headerBuffer, ...)
  state, headerBuffer, header, payload, bytesCopied,
  \* its effects: calls of this.listener, 'error' events, a thrown exception
  listenerCalls, errorEvents, thrown,
  \* the frames that arrive and their bytes, how many of the bytes have been
  \* delivered, whether the latest delivery was a chunk of length 0, and
  \* whether the bytes delivered came in more than one non-empty chunk
  frames, stream, pos, lastEmpty, split,
  \* the codec instances constructed (the isMasking flag of each), the
  \* instance the build<Op>Frame methods on the prototype are bound to
  \* (0: none yet), and the latest frame built
  instances, protoSelf, built,
  \* a call of _applyMask on its own: the arguments (payload, mask, offset),
  \* and the buffer after each application of the mask to it so far
  maskIn, masked,
  \* a WebSocket (the facade): the options it is constructed with, its
  \* readyState, its rfc6455Protocol (<<>>: undefined), the events it has
  \* emitted (each <<name, argument>>), whether its latest method call
  \* ended with an exception, and which method that was ("none": no call yet)
  opts, readyState, rfc6455Protocol, wsEvents, apiThrew, lastCall,
  \* its socket: the socket's condition and listeners, the writes to it, the
  \* lines of the HTTP response the peer sends in front of its frames, and
  \* the bytes written to the decoder
  socket, socketWrites, response, fed

decoderVars == <<state, headerBuffer, header, payload, bytesCopied,
                 listenerCalls, errorEvents, thrown>>
feedVars == <<frames, stream, pos, lastEmpty, split>>
encoderVars == <<instances, protoSelf, built>>
maskVars == <<maskIn, masked>>
wsVars == <<opts, readyState, rfc6455Protocol, wsEvents, apiThrew, lastCall, socket,
            socketWrites, response, fed>>
vars == <<state, headerBuffer, header, payload, bytesCopied, listenerCalls,
          errorEvents, thrown, frames, stream, pos, lastEmpty, split,
          instances, protoSelf,
          built, maskIn, masked, opts, readyState, rfc6455Protocol, wsEvents,
          apiThrew, lastCall, socket, socketWrites, response, fed>>

\* the decoder instance as a value, and the assignment of one to the state
Decoder ==
  [state |-> state, headerBuffer |-> headerBuffer, header |-> header,
   payload |-> payload, bytesCopied |-> bytesCopied,
   listenerCalls |-> listenerCalls, errorEvents |-> errorEvents,
   thrown |-> thrown]

SetDecoder(d) ==
  /\ state' = d.state
  /\ headerBuffer' = d.headerBuffer
  /\ header' = d.header
  /\ payload' = d.payload
  /\ bytesCopied' = d.bytesCopied
  /\ listenerCalls' = d.listenerCalls
  /\ errorEvents' = d.errorEvents
  /\ thrown' = d.thrown

\* no call of _applyMask on its own is under way
NoMaskCall ==
  /\ maskIn = <<>>
  /\ masked = <<>>

\* WebSocket.READY_STATES
CONNECTING == 0
OPEN == 1
CLOSING == 2
CLOSED == 3

\* a socket: phase is "none" (no socket yet), "connecting", "connected",
\* "ended" (the peer's FIN has arrived and 'end' was emitted), "errored"
\* or "destroyed" (an error or destroy(), 'close' still to come) or "closed";
\* handshake: the once('data') listener of buildWithHandshake is attached;
\* handlers: the listeners of buildWithSocket are attached; piped: the
\* socket is piped into the codec
NoSocket ==
  [phase |-> "none", handshake |-> FALSE, handlers |-> FALSE, piped |-> FALSE]

\* no WebSocket exists
NoWebSocket ==
  /\ opts = <<>>
  /\ readyState = CLOSED
  /\ rfc6455Protocol = <<>>
  /\ wsEvents = <<>>
  /\ apiThrew = FALSE
  /\ lastCall = "none"
  /\ socket = NoSocket
  /\ socketWrites = <<>>
  /\ response = <<>>
  /\ fed = <<>>

InitDecoder ==
  /\ state = 0
  /\ headerBuffer = <<>>
  /\ header = <<>>
  /\ payload = <<>>
  /\ bytesCopied = 0
  /\ listenerCalls = <<>>
  /\ errorEvents = <<>>
  /\ thrown = FALSE

(***************************************************************************)
(* Spec: one decoder is fed a stream of frames in chunks of any length.    *)
(***************************************************************************)
Init ==
  /\ InitDecoder
  /\ frames \in FrameSeqs
  /\ stream = Stream(frames)
  /\ pos = 0
  /\ lastEmpty = FALSE
  /\ split = FALSE
  /\ instances = <<FALSE>>
  /\ protoSelf = 1
  /\ built = <<>>
  /\ NoMaskCall
  /\ NoWebSocket

\* stream.write(chunk) with the next n bytes of the stream: the transform
\* function runs on the chunk.  After an exception left transform its
\* callback is never called and the stream delivers nothing more.
Feed(n) ==
  /\ ~thrown
  /\ Len(errorEvents) < MaxErrorEvents
  /\ pos + n <= Len(stream)
  /\ SetDecoder(transform(Decoder, SubSeq(stream, pos + 1, pos + n)))
  /\ pos' = pos + n
  /\ lastEmpty' = (n = 0)
  /\ split' = (split \/ (n > 0 /\ pos > 0))
  /\ UNCHANGED <<frames, stream, instances, protoSelf, built, maskVars, wsVars>>

Next == \E n \in 0..(Len(stream) - pos) : Feed(n)

Spec == Init /\ [][Next]_vars

(***************************************************************************)
(* Spec64: as Spec, for streams that begin with a frame in the 64-bit      *)
(* length form whose eight length bytes are a big-endian unsigned integer, *)
(* as RFC 6455 has it.                                                     *)
(***************************************************************************)
\* n as a big-endian unsigned 64-bit integer, for 0 <= n < 2^31
UInt64BE(n) ==
  <<0, 0, 0, 0, (n \div 16777216) % 256, (n \div 65536) % 256,
    (n \div 256) % 256, n % 256>>

\* 2^53 and 2^63 as big-endian unsigned 64-bit integers
UInt64TwoTo53 == <<0, 32, 0, 0, 0, 0, 0, 0>>
UInt64TwoTo63 == <<128, 0, 0, 0, 0, 0, 0, 0>>

\* a frame in the 64-bit form whose length field holds the payload's length
Frame64(opcode, isMasked, p) ==
  [Frame(1, 0, opcode, isMasked, 64, p) EXCEPT !.ext8 = UInt64BE(Len(p))]

\* the header of a frame whose length field holds ext8 (no payload follows)
Header64(opcode, isMasked, ext8) ==
  [Frame(1, 0, opcode, isMasked, 64, <<>>) EXCEPT !.ext8 = ext8]

\* the length fields that hold a value of 2^53 or more (the third is
\* 0x4340000000000000)
TooLong64 == {UInt64TwoTo53, UInt64TwoTo63, TwoTo53}

Frames64 ==
  { Frame64(BINARY, FALSE, <<>>),
    Frame64(BINARY, FALSE, <<1, 2, 3>>),
    Frame64(TEXT, TRUE, <<72, 105>>),
    Header64(BINARY, FALSE, UInt64TwoTo53),
    Header64(TEXT, TRUE, UInt64TwoTo63),
    Header64(BINARY, FALSE, TwoTo53) }

\* a frame of Frames64, alone or with one frame in a shorter form behind it
FrameSeqs64 ==
  {<<f>> : f \in Frames64} \cup
  {<<f, g>> : f \in Frames64,
              g \in {Frame(1, 0, PING, FALSE, 7, <<>>),
                     Frame(1, 0, TEXT, TRUE, 7, <<72, 105>>)}}

Init64 ==
  /\ InitDecoder
  /\ frames \in FrameSeqs64
  /\ stream = Stream(frames)
  /\ pos = 0
  /\ lastEmpty = FALSE
  /\ split = FALSE
  /\ instances = <<FALSE>>
  /\ protoSelf = 1
  /\ built = <<>>
  /\ NoMaskCall
  /\ NoWebSocket

Spec64 == Init64 /\ [][Next]_vars

(***************************************************************************)
(* SpecBurst: one decoder is fed many short frames, which may all come in  *)
(* one chunk.                                                              *)
(***************************************************************************)
\* the streams fed: up to MaxCallDepth + 1 frames, each an empty PING or a
\* masked TEXT frame
BurstSeqs ==
  SeqsUpTo({Frame(1, 0, PING, FALSE, 7, <<>>),
            Frame(1, 0, TEXT, TRUE, 7, <<72, 105>>)}, MaxCallDepth + 1)

InitBurst ==
  /\ InitDecoder
  /\ frames \in BurstSeqs
  /\ stream = Stream(frames)
  /\ pos = 0
  /\ lastEmpty = FALSE
  /\ split = FALSE
  /\ instances = <<FALSE>>
  /\ protoSelf = 1
  /\ built = <<>>
  /\ NoMaskCall
  /\ NoWebSocket

SpecBurst == InitBurst /\ [][Next]_vars

(***************************************************************************)
(* SpecErr: one decoder is fed a stream that ends with a frame whose base  *)
(* header breaks one or more of the rules on RSV, opcode and FIN.          *)
(***************************************************************************)
\* the frames with a bad base header: every mix of an RSV bit set or not,
\* a data, a control or an invalid opcode, and FIN set or not
BadHeaderFrames ==
  { f \in { Frame(fin, rsv, opcode, FALSE, 7, <<>>) :
              fin \in {0, 1}, rsv \in {0, 1, 6}, opcode \in {TEXT, 3, PING, 15} } :
      BadBaseHeader(f) }

\* the streams fed: a frame with a bad base header, alone or behind a frame
\* that is in order
ErrSeqs ==
  {<<f>> : f \in BadHeaderFrames}
    \cup {<<g, f>> : g \in {Frame(1, 0, PING, FALSE, 7, <<>>),
                            Frame(0, 0, TEXT, TRUE, 7, <<72, 105>>)},
                     f \in BadHeaderFrames}

InitErr ==
  /\ InitDecoder
  /\ frames \in ErrSeqs
  /\ stream = Stream(frames)
  /\ pos = 0
  /\ lastEmpty = FALSE
  /\ split = FALSE
  /\ instances = <<FALSE>>
  /\ protoSelf = 1
  /\ built = <<>>
  /\ NoMaskCall
  /\ NoWebSocket

SpecErr == InitErr /\ [][Next]_vars

(***************************************************************************)
(* SpecEnc: codec instances are constructed, frames are built by           *)
(* _buildFrame and by the build<Op>Frame methods, and a built frame is fed *)
(* to a fresh decoder in one call.                                         *)
(***************************************************************************)
\* the payloads handed to the encoder
PayloadOf(len, seed) == [i \in 1..len |-> (seed + 37 * i) % 256]
EncoderLengths == (0..MaxSmallLen) \cup {125, 126}
Payloads == {PayloadOf(len, seed) : len \in EncoderLengths, seed \in {11, 140}}

\* the values crypto.randomBytes(4) may return
MaskKeys == {<<55, 250, 33, 61>>, <<0, 0, 0, 0>>, <<255, 128, 1, 254>>}

InitEnc ==
  /\ InitDecoder
  /\ frames = <<>>
  /\ stream = <<>>
  /\ pos = 0
  /\ lastEmpty = FALSE
  /\ split = FALSE
  /\ instances = <<>>
  /\ protoSelf = 0
  /\ built = <<>>
  /\ NoMaskCall
  /\ NoWebSocket

\* new Rfc6455Protocol({isMasking: m}): the constructor also (re)defines the
\* six build<Op>Frame methods on Rfc6455Protocol.prototype, each calling
\* self._buildFrame with self the instance under construction
Construct(m) ==
  /\ Len(instances) < MaxInstances
  /\ instances' = Append(instances, m)
  /\ protoSelf' = Len(instances) + 1
  /\ UNCHANGED <<decoderVars, feedVars, built, maskVars, wsVars>>

\* what a build leaves behind: the frame, kept as the stream a fresh decoder
\* is to be fed; caller is the instance the method was called on and self
\* the instance whose _buildFrame ran.  One built frame is looked at at a
\* time: the next build follows once the frame has been dropped.
Building(caller, self, opcode, buffer, key) ==
  LET wsFrame == _buildFrame(instances[self], buffer, opcode, key)
  IN  /\ built = <<>>
      /\ built' = <<[caller |-> caller, self |-> self, opcode |-> opcode,
                     payload |-> buffer, mask |-> key, frame |-> wsFrame]>>
      /\ stream' = wsFrame
      /\ pos' = 0
      /\ lastEmpty' = FALSE
      /\ split' = FALSE
      /\ SetDecoder(NewDecoder)
      /\ UNCHANGED <<frames, instances, protoSelf, maskVars, wsVars>>

\* c._buildFrame(buffer, opcode)
BuildFrame(c, opcode, buffer) ==
  /\ c \in 1..Len(instances)
  /\ \E key \in (IF instances[c] THEN MaskKeys ELSE {<<>>}) :
       Building(c, c, opcode, buffer, key)

\* c.build<Op>Frame(buffer): the method found on the prototype
BuildOpFrame(c, opcode, buffer) ==
  /\ c \in 1..Len(instances)
  /\ \E key \in (IF instances[protoSelf] THEN MaskKeys ELSE {<<>>}) :
       Building(c, protoSelf, opcode, buffer, key)

\* the built frame is written to a fresh decoder in one call
RoundTrip ==
  /\ built # <<>>
  /\ pos = 0
  /\ Feed(Len(stream))

\* the built frame and the decoder it was fed to are dropped
Release ==
  /\ built # <<>>
  /\ built' = <<>>
  /\ stream' = <<>>
  /\ pos' = 0
  /\ lastEmpty' = FALSE
  /\ split' = FALSE
  /\ SetDecoder(NewDecoder)
  /\ UNCHANGED <<frames, instances, protoSelf, maskVars, wsVars>>

NextEnc ==
  \/ \E m \in BOOLEAN : Construct(m)
  \/ \E c \in 1..MaxInstances, op \in OPCODES, p \in Payloads : BuildFrame(c, op, p)
  \/ \E c \in 1..MaxInstances, op \in OPCODES, p \in Payloads : BuildOpFrame(c, op, p)
  \/ RoundTrip
  \/ Release

SpecEnc == InitEnc /\ [][NextEnc]_vars

(***************************************************************************)
(* SpecCtl: one decoder is fed a control frame whose payload is longer     *)
(* than 125 bytes, alone or with a frame behind it, in chunks of a few     *)
(* lengths.                                                                *)
(***************************************************************************)
\* a payload of 126 bytes, which takes the 16-bit length form
LongControlPayload == PayloadOf(125 + 1, 11)

\* the streams fed: an unmasked CLOSE, a masked PONG, and a masked PING with
\* a TEXT frame behind it
CtlSeqs ==
  { <<Frame(1, 0, CLOSE, FALSE, 16, LongControlPayload)>>,
    <<Frame(1, 0, PONG, TRUE, 16, LongControlPayload)>>,
    <<Frame(1, 0, PING, TRUE, 16, LongControlPayload),
      Frame(1, 0, TEXT, TRUE, 7, <<72, 105>>)>> }

InitCtl ==
  /\ InitDecoder
  /\ frames \in CtlSeqs
  /\ stream = Stream(frames)
  /\ pos = 0
  /\ lastEmpty = FALSE
  /\ split = FALSE
  /\ instances = <<FALSE>>
  /\ protoSelf = 1
  /\ built = <<>>
  /\ NoMaskCall
  /\ NoWebSocket

\* the chunks are short (7 bytes, which splits a masked header), long (50
\* bytes), empty, or all that is left of the stream
NextCtl == \E n \in {0, 7, 50, Len(stream) - pos} : Feed(n)

SpecCtl == InitCtl /\ [][NextCtl]_vars

(***************************************************************************)
(* SpecEnc64: one codec instance builds frames, among them frames for a    *)
(* payload one byte longer than the 16-bit length form holds.              *)
(***************************************************************************)
\* the shortest payload that takes the 64-bit length form
LongPayload == PayloadOf(65535 + 1, 11)

InitEnc64 ==
  /\ InitDecoder
  /\ frames = <<>>
  /\ stream = <<>>
  /\ pos = 0
  /\ lastEmpty = FALSE
  /\ split = FALSE
  /\ instances \in {<<FALSE>>, <<TRUE>>}
  /\ protoSelf = 1
  /\ built = <<>>
  /\ NoMaskCall
  /\ NoWebSocket

\* _buildFrame(buffer, BINARY) for the long payload
BuildLongFrame == BuildFrame(1, BINARY, LongPayload)

NextEnc64 ==
  \/ \E op \in OPCODES, p \in Payloads : BuildFrame(1, op, p)
  \/ BuildLongFrame
  \/ RoundTrip
  \/ Release

SpecEnc64 == InitEnc64 /\ [][NextEnc64]_vars

(***************************************************************************)
(* SpecMask: _applyMask is called on a buffer, and once more on the result *)
(* with the same mask and offset.                                          *)
(***************************************************************************)
\* the arguments: a buffer of up to MaxMaskLen bytes, a mask of four bytes or
\* an empty one, and an offset up to one behind the end of the buffer
MaskInputs ==
  {[payload |-> PayloadOf(len, seed), mask |-> m, offset |-> o] :
     len \in 0..MaxMaskLen, seed \in {11, 140},
     m \in MaskKeys \cup {<<>>}, o \in 0..(MaxMaskLen + 1)}

InitMask ==
  /\ InitDecoder
  /\ frames = <<>>
  /\ stream = <<>>
  /\ pos = 0
  /\ lastEmpty = FALSE
  /\ split = FALSE
  /\ instances = <<>>
  /\ protoSelf = 0
  /\ built = <<>>
  /\ maskIn \in {<<a>> : a \in {x \in MaskInputs : x.offset <= Len(x.payload) + 1}}
  /\ masked = <<>>
  /\ NoWebSocket

\* this._applyMask(payload, mask, offset) on the buffer as it is now
ApplyMask ==
  /\ maskIn # <<>>
  /\ Len(masked) < 2
  /\ LET a   == maskIn[1]
         buf == IF masked = <<>> THEN a.payload ELSE masked[Len(masked)]
     IN  masked' = Append(masked, _applyMask(buf, a.mask, a.offset))
  /\ UNCHANGED <<decoderVars, feedVars, encoderVars, maskIn, wsVars>>

NextMask == ApplyMask

SpecMask == InitMask /\ [][NextMask]_vars

(***************************************************************************)
(* WebSocket, the client facade (buildWithSocket, buildWithHandshake, the  *)
(* constructor, send / close / ping / pong).  Strings are sequences of     *)
(* character codes.                                                        *)
(***************************************************************************)
\* the constructor of Rfc6455Protocol reads its first argument as an options
\* object: this.isMasking = !!opts.isMasking and this.listener =
\* opts.listener || function() {}.  An argument is [kind |-> "object", ...]
\* or a primitive [kind |-> "boolean", ...], which has neither property.
IsMaskingOf(codecOpts) == codecOpts.kind = "object" /\ codecOpts.isMasking
ListenerOf(codecOpts) ==
  IF codecOpts.kind = "object" /\ codecOpts.hasListener THEN "given" ELSE "noop"

\* Buffer.from(string): the UTF-8 encoding, for character codes below 2048
RECURSIVE BufferFrom(_)
BufferFrom(str) ==
  IF str = <<>> THEN <<>>
  ELSE LET c == Head(str)
       IN  (IF c < 128 THEN <<c>> ELSE <<192 + (c \div 64), 128 + (c % 64)>>)
             \o BufferFrom(Tail(str))

\* the string '1000'
Code1000 == <<49, 48, 48, 48>>

\* the lines of an HTTP response, each with its bytes on the wire (the line
\* break included) and with what the handshake's tests find in it: is101 is
\* /HTTP\/1\.1 101 Switching Protocols/i.test(line), hasAccept is
\* /Sec-WebSocket-Accept/i.test(line), and acceptOk says that the text
\* behind "Sec-WebSocket-Accept: " equals the base64 SHA-1 digest of the
\* secret sent and the GUID
StatusLine101 ==
  [bytes |-> <<72, 84, 84, 80, 47, 49, 46, 49, 32, 49, 48, 49, 32, 83, 119,
               105, 116, 99, 104, 105, 110, 103, 32, 80, 114, 111, 116, 111,
               99, 111, 108, 115, 13, 10>>,
   is101 |-> TRUE, hasAccept |-> FALSE, acceptOk |-> FALSE]
StatusLine400 ==
  [bytes |-> <<72, 84, 84, 80, 47, 49, 46, 49, 32, 52, 48, 48, 32, 66, 97,
               100, 32, 82, 101, 113, 117, 101, 115, 116, 13, 10>>,
   is101 |-> FALSE, hasAccept |-> FALSE, acceptOk |-> FALSE]
UpgradeLine ==
  [bytes |-> <<85, 112, 103, 114, 97, 100, 101, 58, 32, 119, 101, 98, 115,
               111, 99, 107, 101, 116, 13, 10>>,
   is101 |-> FALSE, hasAccept |-> FALSE, acceptOk |-> FALSE]
AcceptLineGood ==
  [bytes |-> <<83, 101, 99, 45, 87, 101, 98, 83, 111, 99, 107, 101, 116, 45,
               65, 99, 99, 101, 112, 116, 58, 32, 115, 51, 112, 80, 76, 77,
               66, 105, 84, 120, 97, 81, 57, 107, 89, 71, 122, 122, 104, 90,
               82, 98, 75, 43, 120, 79, 111, 61, 13, 10>>,
   is101 |-> FALSE, hasAccept |-> TRUE, acceptOk |-> TRUE]
AcceptLineBad ==
  [bytes |-> <<83, 101, 99, 45, 87, 101, 98, 83, 111, 99, 107, 101, 116, 45,
               65, 99, 99, 101, 112, 116, 58, 32, 65, 65, 65, 65, 65, 65, 65,
               65, 65, 65, 65, 65, 65, 65, 65, 65, 65, 65, 65, 65, 65, 65,
               65, 65, 65, 65, 65, 61, 13, 10>>,
   is101 |-> FALSE, hasAccept |-> TRUE, acceptOk |-> FALSE]
BlankLine ==
  [bytes |-> <<13, 10>>, is101 |-> FALSE, hasAccept |-> FALSE, acceptOk |-> FALSE]

\* the responses a peer answers the upgrade request with
Responses ==
  { <<StatusLine101, UpgradeLine, AcceptLineGood, BlankLine>>,
    <<StatusLine101, UpgradeLine, AcceptLineBad, BlankLine>>,
    <<StatusLine101, UpgradeLine, BlankLine>>,
    <<StatusLine400, BlankLine>> }

\* the number of bytes of the first k lines, and the bytes of all lines
RECURSIVE LineEnd(_, _)
LineEnd(lines, k) == IF k = 0 THEN 0 ELSE LineEnd(lines, k - 1) + Len(lines[k].bytes)
RECURSIVE LineBytes(_)
LineBytes(lines) ==
  IF lines = <<>> THEN <<>> ELSE Head(lines).bytes \o LineBytes(Tail(lines))

\* the lines that lie completely within the first n bytes
LinesWithin(lines, n) ==
  SubSeq(lines, 1, Cardinality({k \in 1..Len(lines) : LineEnd(lines, k) <= n}))

\* the frames a peer sends: unmasked, as a server's are
WsFrames ==
  { Frame(1, 0, TEXT, FALSE, 7, <<72, 105>>),
    Frame(1, 0, BINARY, FALSE, 7, <<200>>),
    Frame(1, 0, PING, FALSE, 7, <<>>),
    Frame(1, 0, PONG, FALSE, 7, <<>>),
    Frame(1, 0, CLOSE, FALSE, 7, <<3, 232>>),
    Frame(1, 0, 3, FALSE, 7, <<>>) }

\* what the peer sends: no frame, one frame, or a frame that is in order
\* followed by one that is not
WsFrameSeqs ==
  {<<>>} \cup {<<f>> : f \in WsFrames}
         \cup {<<Frame(1, 0, TEXT, FALSE, 7, <<72, 105>>), Frame(1, 0, 3, FALSE, 7, <<>>)>>}

\* the string handed to send, ping and pong: 'é'
WsData == {<<233>>}

\* the loop over the lines of the first chunk in buildWithHandshake: TRUE
\* if it throws ('Invalid protocol' or 'Invalid secret')
HandshakeThrows(lines) ==
  \/ ~lines[1].is101
  \/ \E i \in 1..Len(lines) : lines[i].hasAccept /\ ~lines[i].acceptOk

\* buildWithSocket(self, maskFrames) on the socket sock; maskFrames is the
\* truth value of the second argument.  new Rfc6455Protocol(!!maskFrames,
\* function(opcode, payload) {...}) passes a boolean where the constructor
\* reads an options object, and the function as a second argument, which the
\* constructor does not read.  The idle timeout is switched off
\* (setTimeout(0, ...)), so 'timeout' is never emitted.
buildWithSocket(sock, maskFrames) ==
  LET codecOpts == [kind |-> "boolean", value |-> maskFrames]
      instance  == Len(instances) + 1
  IN  /\ instances' = Append(instances, IsMaskingOf(codecOpts))
      /\ protoSelf' = instance
      /\ rfc6455Protocol' = <<[instance |-> instance, listener |-> ListenerOf(codecOpts)]>>
      /\ state' = NewDecoder.state
      /\ headerBuffer' = NewDecoder.headerBuffer
      /\ header' = NewDecoder.header
      /\ payload' = NewDecoder.payload
      /\ bytesCopied' = NewDecoder.bytesCopied
      /\ listenerCalls' = NewDecoder.listenerCalls
      /\ errorEvents' = NewDecoder.errorEvents
      /\ socket' = [sock EXCEPT !.handlers = TRUE, !.piped = TRUE]
      /\ readyState' = OPEN
      /\ wsEvents' = Append(wsEvents, <<"connect", <<>>>>)

\* what stays as it is in every step of a WebSocket
wsIdle == <<frames, stream, lastEmpty, split, built, maskVars, opts, response>>

\* new WebSocket(opts)
WebSocket ==
  /\ socket.phase = "none"
  /\ IF opts[1].via = "url"
       THEN \* buildWithHandshake up to net.connect(...).once('data', ...)
            /\ readyState' = CLOSED
            /\ socket' = [socket EXCEPT !.phase = "connecting", !.handshake = TRUE]
            /\ UNCHANGED <<decoderVars, instances, protoSelf, rfc6455Protocol, wsEvents>>
       ELSE /\ buildWithSocket([socket EXCEPT !.phase = "connected"], opts[1].maskFrames)
            /\ UNCHANGED thrown
  /\ UNCHANGED <<wsIdle, pos, apiThrew, lastCall, socketWrites, fed>>

\* the 'connect' callback of buildWithHandshake: the upgrade request is
\* written (its text is not modelled)
OnConnect ==
  /\ socket.phase = "connecting"
  /\ socket' = [socket EXCEPT !.phase = "connected"]
  /\ readyState' = CONNECTING
  /\ socketWrites' = Append(socketWrites, [call |-> "handshake", bytes |-> <<>>, end |-> FALSE])
  /\ UNCHANGED <<wsIdle, decoderVars, pos, instances, protoSelf, rfc6455Protocol,
                 wsEvents, apiThrew, lastCall, fed>>

\* the socket's first 'data' event, taken by the once('data') listener of
\* buildWithHandshake: the chunk holds the first n bytes the peer sent.  An
\* exception thrown by the listener leaves the 'data' event uncaught.  The
\* pipe set up by buildWithSocket sees the chunks that follow, not this one.
OnHandshakeData(n) ==
  /\ socket.phase = "connected"
  /\ socket.handshake
  /\ ~thrown
  /\ pos = 0
  /\ n >= 1
  /\ n <= Len(stream)
  /\ \/ n >= LineEnd(response, Len(response))
     \/ \E k \in 1..Len(response) : n = LineEnd(response, k)
  /\ pos' = n
  /\ IF HandshakeThrows(LinesWithin(response, n))
       THEN /\ readyState' = CLOSED
            /\ thrown' = TRUE
            /\ socket' = [socket EXCEPT !.handshake = FALSE]
            /\ UNCHANGED <<state, headerBuffer, header, payload, bytesCopied,
                           listenerCalls, errorEvents, instances, protoSelf,
                           rfc6455Protocol, wsEvents>>
       ELSE /\ buildWithSocket([socket EXCEPT !.handshake = FALSE], TRUE)
            /\ UNCHANGED thrown
  /\ UNCHANGED <<wsIdle, apiThrew, lastCall, socketWrites, fed>>

\* a later 'data' event: socket.pipe(self.rfc6455Protocol) writes the chunk
\* (the next n bytes) to the codec, whose transform function runs on it.
\* The codec's listener is the empty function (ListenerOf), so a completed
\* frame leads to no event of the WebSocket.  An 'error' event of the codec
\* first reaches the listener pipe put in front, which unpipes the socket
\* (it stops flowing), then the listener of buildWithSocket, which emits
\* 'error'.
OnData(n) ==
  /\ socket.phase = "connected"
  /\ socket.piped
  /\ ~thrown
  /\ n >= 1
  /\ pos + n <= Len(stream)
  /\ \/ pos + n >= LineEnd(response, Len(response))
     \/ \E k \in 1..Len(response) : pos + n = LineEnd(response, k)
  /\ LET chunk  == SubSeq(stream, pos + 1, pos + n)
         d      == transform(Decoder, chunk)
         errors == SubSeq(d.errorEvents, Len(errorEvents) + 1, Len(d.errorEvents))
     IN  /\ SetDecoder(d)
         /\ fed' = fed \o chunk
         /\ socket' = [socket EXCEPT !.piped = (errors = <<>>)]
         /\ wsEvents' = wsEvents \o [i \in 1..Len(errors) |-> <<"error", errors[i]>>]
  /\ pos' = pos + n
  /\ UNCHANGED <<wsIdle, instances, protoSelf, rfc6455Protocol, readyState,
                 apiThrew, lastCall, socketWrites>>

\* a guard that lets the calls through while readyState is CLOSING
Returns_OnlyClosed == readyState = CLOSED

\* a guard that lets the calls through once readyState is CLOSED
Returns_OnlyClosing == readyState = CLOSING

\* a call of send, ping, pong or close returns at once while readyState is
\* CLOSING or CLOSED
Returns == readyState \in {CLOSING, CLOSED}

\* self.rfc6455Protocol.build<Op>Frame(buffer): the method on the prototype
\* runs _buildFrame of the instance constructed last
FacadeFrames(opcode, buffer) ==
  { _buildFrame(instances[protoSelf], buffer, opcode, key) :
      key \in (IF instances[protoSelf] THEN MaskKeys ELSE {<<>>}) }

\* a call that returns at once or ends with an exception
NoWrite(call, threw) ==
  /\ apiThrew' = threw
  /\ lastCall' = call
  /\ UNCHANGED <<wsIdle, decoderVars, pos, instances, protoSelf, rfc6455Protocol,
                 readyState, wsEvents, socket, socketWrites, fed>>

\* socket.write(frame) by the method call
WriteFrame(call, opcode, buffer) ==
  /\ \E wsFrame \in FacadeFrames(opcode, buffer) :
       socketWrites' = Append(socketWrites,
                              [call |-> call, bytes |-> wsFrame, end |-> FALSE])
  /\ apiThrew' = FALSE
  /\ lastCall' = call
  /\ UNCHANGED <<wsIdle, decoderVars, pos, instances, protoSelf, rfc6455Protocol,
                 readyState, wsEvents, socket, fed>>

\* ws.send(data) with data a string: while there is no rfc6455Protocol the
\* call ends with a TypeError
Send(data) ==
  /\ socket.phase # "none"
  /\ ~thrown
  /\ Len(socketWrites) < MaxSocketWrites
  /\ IF Returns THEN NoWrite("send", FALSE)
     ELSE IF rfc6455Protocol = <<>> THEN NoWrite("send", TRUE)
     ELSE WriteFrame("send", TEXT, BufferFrom(data))

\* ws.ping(data) and ws.pong(data), call being "ping" or "pong": data || 0
\* is 0 for the empty string and for no argument, and Buffer.from(0) ends
\* with a TypeError
PingPong(call, data) ==
  /\ socket.phase # "none"
  /\ ~thrown
  /\ Len(socketWrites) < MaxSocketWrites
  /\ IF Returns THEN NoWrite(call, FALSE)
     ELSE IF rfc6455Protocol = <<>> \/ data = <<>> THEN NoWrite(call, TRUE)
     ELSE WriteFrame(call, IF call = "ping" THEN PING ELSE PONG, BufferFrom(data))

\* ws.close(code) with code a string or absent (<<>>): an exception within
\* the try block (there is no rfc6455Protocol yet) destroys the socket
Close(code) ==
  /\ socket.phase # "none"
  /\ ~thrown
  /\ Len(socketWrites) < MaxSocketWrites
  /\ IF Returns THEN NoWrite("close", FALSE)
     ELSE /\ readyState' = CLOSING
          /\ apiThrew' = FALSE
          /\ lastCall' = "close"
          /\ IF rfc6455Protocol = <<>>
               THEN /\ socket' = [socket EXCEPT !.phase =
                                    IF @ = "closed" THEN @ ELSE "destroyed"]
                    /\ UNCHANGED socketWrites
               ELSE /\ \E wsFrame \in FacadeFrames(CLOSE,
                            BufferFrom(IF code = <<>> THEN Code1000 ELSE code)) :
                         socketWrites' = Append(socketWrites,
                           [call |-> "close", bytes |-> wsFrame, end |-> TRUE])
                    /\ UNCHANGED socket
          /\ UNCHANGED <<wsIdle, decoderVars, pos, instances, protoSelf,
                         rfc6455Protocol, wsEvents, fed>>

\* the socket's 'end' event: the peer has finished and all it sent has been
\* read, which takes a socket that is flowing
OnSocketEnd ==
  /\ socket.phase = "connected"
  /\ socket.handshake \/ socket.piped
  /\ ~thrown
  /\ pos = Len(stream)
  /\ socket' = [socket EXCEPT !.phase = "ended"]
  /\ IF socket.handlers
       THEN /\ readyState' = CLOSING
            /\ wsEvents' = Append(wsEvents, <<"close", Code1000>>)
       ELSE UNCHANGED <<readyState, wsEvents>>
  /\ UNCHANGED <<wsIdle, decoderVars, pos, instances, protoSelf, rfc6455Protocol,
                 apiThrew, lastCall, socketWrites, fed>>

\* the socket's 'error' event (the connection fails or is reset); with no
\* listener for it the event is thrown
OnSocketError ==
  /\ socket.phase \in {"connecting", "connected"}
  /\ ~thrown
  /\ socket' = [socket EXCEPT !.phase = "errored", !.piped = FALSE]
  /\ IF socket.handlers
       THEN /\ wsEvents' = Append(wsEvents, <<"error", "socket">>)
            /\ UNCHANGED thrown
       ELSE /\ thrown' = TRUE
            /\ UNCHANGED wsEvents
  /\ UNCHANGED <<wsIdle, state, headerBuffer, header, payload, bytesCopied,
                 listenerCalls, errorEvents, pos, instances, protoSelf,
                 rfc6455Protocol, readyState, apiThrew, lastCall, socketWrites, fed>>

\* the socket's 'close' event, which follows 'end', an error and destroy()
OnSocketClose ==
  /\ socket.phase \in {"ended", "errored", "destroyed"}
  /\ ~thrown
  /\ socket' = [socket EXCEPT !.phase = "closed", !.piped = FALSE]
  /\ IF socket.handlers
       THEN /\ readyState' = CLOSED
            /\ wsEvents' = Append(wsEvents, <<"close", Code1000>>)
       ELSE UNCHANGED <<readyState, wsEvents>>
  /\ UNCHANGED <<wsIdle, decoderVars, pos, instances, protoSelf, rfc6455Protocol,
                 apiThrew, lastCall, socketWrites, fed>>

(***************************************************************************)
(* SpecWs: one WebSocket is constructed from a url or from a connected     *)
(* socket; the peer sends a response (to a url's request) and then frames; *)
(* the owner calls send, ping, pong and close.                             *)
(***************************************************************************)
InitWs ==
  /\ InitDecoder
  /\ opts \in {<<[via |-> via, maskFrames |-> m]>> : via \in {"url", "socket"}, m \in BOOLEAN}
  /\ response \in (IF opts[1].via = "url" THEN Responses ELSE {<<>>})
  /\ frames \in WsFrameSeqs
  /\ stream = LineBytes(response) \o Stream(frames)
  /\ pos = 0
  /\ lastEmpty = FALSE
  /\ split = FALSE
  /\ instances = <<>>
  /\ protoSelf = 0
  /\ built = <<>>
  /\ NoMaskCall
  /\ readyState = CLOSED
  /\ rfc6455Protocol = <<>>
  /\ wsEvents = <<>>
  /\ apiThrew = FALSE
  /\ lastCall = "none"
  /\ socket = NoSocket
  /\ socketWrites = <<>>
  /\ fed = <<>>

NextWs ==
  \/ WebSocket
  \/ OnConnect
  \/ \E n \in 1..Len(stream) : OnHandshakeData(n)
  \/ \E n \in 1..Len(stream) : OnData(n)
  \/ \E data \in WsData : Send(data)
  \/ \E call \in {"ping", "pong"}, data \in WsData \cup {<<>>} : PingPong(call, data)
  \/ \E code \in {<<>>, <<49, 48, 48, 49>>} : Close(code)
  \/ OnSocketEnd
  \/ OnSocketError
  \/ OnSocketClose

SpecWs == InitWs /\ [][NextWs]_vars

\* the event loop runs the listeners of what has arrived: a chunk the peer
\* sent reaches a flowing socket's 'data' listeners, and 'close' follows
\* 'end', an error and destroy().  What the peer and the owner do is up to
\* them.
SpecWsFair ==
  /\ InitWs
  /\ [][NextWs]_vars
  /\ WF_vars(\E n \in 1..Len(stream) : OnHandshakeData(n))
  /\ WF_vars(\E n \in 1..Len(stream) : OnData(n))
  /\ WF_vars(OnSocketClose)

(***************************************************************************)
(* Properties of the decoder, checked under Spec.                          *)
(***************************************************************************)
\* every frame of the stream is one the decoder accepts
AllValid == FirstInvalid(frames) = Len(frames) + 1

IsPrefix(s, t) == Len(s) <= Len(t) /\ SubSeq(t, 1, Len(s)) = s

\* C1 (chunk-invariance): once a stream of valid frames has been delivered
\* completely, in whatever chunks, the listener has received the same
\* sequence of (opcode, payload) pairs as a fresh decoder receives when the
\* whole stream is delivered in a single call.
C1_ChunkInvariance ==
  (pos = Len(stream) /\ AllValid) =>
    listenerCalls = transform(NewDecoder, stream).listenerCalls

\* a stream of two frames, one of them masked and one with a 16-bit length,
\* has been delivered in more than one chunk and both frames were received
C1_Witness ==
  /\ pos = Len(stream)
  /\ AllValid
  /\ split
  /\ Len(frames) = 2
  /\ frames[1].masked
  /\ frames[2].form = 16
  /\ Len(listenerCalls) = 2

\* C3 (once per completed frame): in every state the listener has been
\* called exactly once for each frame whose last byte has been delivered,
\* in stream order, with the frame's opcode and its payload with the mask
\* removed, and not at all for a frame that is still incomplete.
C3_OncePerCompleteFrame ==
  listenerCalls = Pairs(frames, Completed(frames, pos))

\* a masked frame with a payload has been received while the frame behind
\* it is still incomplete
C3_Witness ==
  /\ Len(frames) = 2
  /\ AllValid
  /\ frames[1].masked
  /\ Len(frames[1].payload) > 0
  /\ FrameEnd(frames, 1) < pos
  /\ pos < FrameEnd(frames, 2)
  /\ listenerCalls = <<<<frames[1].opcode, frames[1].payload>>>>

\* C4 (rejection): the listener is never called for a frame whose two base
\* header bytes are bad, and once both bytes have been delivered, in
\* whatever chunks and with whatever length, mask bit and payload behind
\* them, an 'error' event has been emitted.
C4_Rejection ==
  LET b == FirstInvalid(frames)
  IN  (b <= Len(frames) /\ BadBaseHeader(frames[b])) =>
        /\ Len(listenerCalls) < b
        /\ pos >= FrameStart(frames, b) + 2 =>
             (errorEvents # <<>> /\ listenerCalls = Pairs(frames, b - 1))

\* a masked control frame with FIN = 0 that follows a valid frame has been
\* delivered completely, in more than one chunk, and was rejected
C4_Witness ==
  LET b == FirstInvalid(frames)
  IN  /\ b = 2
      /\ Len(frames) = 2
      /\ frames[b].opcode = PING
      /\ frames[b].fin = 0
      /\ frames[b].masked
      /\ split
      /\ pos = Len(stream)
      /\ errorEvents # <<>>
      /\ Len(listenerCalls) = 1

\* C5 (terminal after a violation): over all the deliveries that follow a
\* protocol violation the 'error' event has been emitted once in total.
C5_ErrorOnce == Len(errorEvents) <= 1

\* C6 (emission order), a property of every step: the listener's calls are
\* only ever extended, and they are the frames of the stream in stream
\* order, one call per frame, from the first frame on.
C6_EmissionOrder ==
  [][/\ IsPrefix(listenerCalls, listenerCalls')
     /\ listenerCalls' = Pairs(frames, Len(listenerCalls'))]_vars

\* two different frames arrived in a single chunk and were received in
\* stream order
C6_Witness ==
  /\ Len(frames) = 2
  /\ frames[1] # frames[2]
  /\ ~split
  /\ pos = Len(stream)
  /\ listenerCalls = Pairs(frames, 2)

\* C7 (synchronous emission), a property of every delivery: a frame whose
\* last byte is part of the chunk delivered (for an empty payload, the last
\* byte of its header) has not been received before the call and has been
\* received when the call returns.
C7_SynchronousEmission ==
  [][\A i \in 1..(FirstInvalid(frames) - 1) :
       (pos < FrameEnd(frames, i) /\ FrameEnd(frames, i) <= pos') =>
         /\ Len(listenerCalls) < i
         /\ Len(listenerCalls') >= i
         /\ listenerCalls'[i] = <<frames[i].opcode, frames[i].payload>>]_vars

\* a masked frame with an empty payload has been received by the call that
\* delivered the last byte of its mask key, with more of the stream to come
C7_Witness ==
  /\ Len(frames) = 2
  /\ frames[1].masked
  /\ frames[1].payload = <<>>
  /\ split
  /\ pos = FrameEnd(frames, 1)
  /\ Len(listenerCalls) = 1

\* C10 (zero-length delivery), a property of every step: a delivery of a
\* chunk of length 0 to a decoder that has raised no error changes none of
\* the decoder's fields and causes no listener call and no 'error' event.
C10_ZeroLengthNoOp ==
  [][(lastEmpty' /\ errorEvents = <<>>) => UNCHANGED decoderVars]_vars

\* a chunk of length 0 was delivered while the decoder holds an incomplete
\* header of two or more bytes
C10_Witness ==
  /\ lastEmpty
  /\ errorEvents = <<>>
  /\ state = 0
  /\ Len(headerBuffer) >= 2

\* C11 (reset after emission): whenever the bytes delivered end exactly
\* behind a valid frame, the frame has been emitted and every field of the
\* decoder has the value it has in a freshly constructed decoder: state 0,
\* an empty headerBuffer, no header, no payload, bytesCopied 0.
C11_ResetAfterEmission ==
  \A i \in 1..(FirstInvalid(frames) - 1) :
    pos = FrameEnd(frames, i) =>
      /\ Len(listenerCalls) = i
      /\ state = NewDecoder.state
      /\ headerBuffer = NewDecoder.headerBuffer
      /\ header = NewDecoder.header
      /\ payload = NewDecoder.payload
      /\ bytesCopied = NewDecoder.bytesCopied

\* a stream of two frames, the second with a payload, was delivered in more
\* than one chunk and the latest chunk ended exactly behind the second frame
C11_Witness ==
  /\ Len(frames) = 2
  /\ AllValid
  /\ split
  /\ Len(frames[2].payload) > 0
  /\ pos = FrameEnd(frames, 2)
  /\ Len(listenerCalls) = 2
  /\ state = 0
  /\ header = <<>>

\* C12 (header.mask): a header the decoder has finalized (here: the header
\* it holds while it waits for the rest of the payload) has a mask of four
\* bytes if the frame's MASK bit is set and no mask (null) if it is clear.
C12_MaskIffMasked ==
  state = 1 =>
    /\ header[1].isMasked => Len(header[1].mask) = 4
    /\ ~header[1].isMasked => header[1].mask = <<>>

\* C21 (copied bytes): bytesCopied is 0 while there is no header and lies in
\* 0..header.payloadLength otherwise; while the decoder waits for payload
\* (state 1) the payload buffer has header.payloadLength bytes, fewer than
\* that are copied, and the bytes copied are the bytes delivered of this
\* frame's payload, none of a later frame.
C21_CopiedBytes ==
  /\ header = <<>> => bytesCopied = 0
  /\ header # <<>> => bytesCopied >= 0 /\ bytesCopied <= header[1].payloadLength
  /\ state = 1 =>
       LET i    == Len(listenerCalls) + 1
           len  == Len(frames[i].payload)
           body == FrameEnd(frames, i) - len
       IN  /\ header # <<>>
           /\ header[1].payloadLength = len
           /\ header[1].payloadOffset = body - FrameStart(frames, i)
           /\ payload # <<>>
           /\ Len(payload[1]) = len
           /\ bytesCopied < len
           /\ bytesCopied = pos - body
           /\ \A k \in 1..bytesCopied : payload[1][k] = stream[body + k]

\* the second of two frames has a payload of two bytes, of which the decoder
\* holds the first; the bytes came in more than one chunk
C21_Witness ==
  /\ Len(frames) = 2
  /\ AllValid
  /\ split
  /\ Len(frames[2].payload) = 2
  /\ pos = FrameEnd(frames, 2) - 1
  /\ state = 1
  /\ bytesCopied = 1
  /\ Len(listenerCalls) = 1

\* C24 (no fragmentation policing): every data frame that has been delivered
\* completely was handed to the listener on its own, with its own opcode and
\* its own payload, whatever its FIN bit and whatever frame came before it,
\* and fragmentation alone raises no error: not for a CONTINUATION frame
\* that continues nothing, nor for a data frame behind an unfinished one.
C24_NoFragmentationPolicing ==
  /\ AllValid => errorEvents = <<>>
  /\ \A i \in 1..(FirstInvalid(frames) - 1) :
       (frames[i].opcode \in {CONTINUATION, TEXT, BINARY} /\ pos >= FrameEnd(frames, i)) =>
         /\ Len(listenerCalls) >= i
         /\ listenerCalls[i] = <<frames[i].opcode, frames[i].payload>>

\* a CONTINUATION frame with FIN = 0 that continues nothing came first and a
\* TEXT frame with FIN = 1 behind it, in more than one chunk; both were
\* emitted
C24_Witness ==
  /\ Len(frames) = 2
  /\ frames[1].opcode = CONTINUATION
  /\ frames[1].fin = 0
  /\ frames[2].opcode = TEXT
  /\ frames[2].fin = 1
  /\ split
  /\ pos = Len(stream)
  /\ errorEvents = <<>>
  /\ listenerCalls = <<<<CONTINUATION, frames[1].payload>>, <<TEXT, frames[2].payload>>>>

(***************************************************************************)
(* Properties of the decoder, checked under Spec64.                        *)
(***************************************************************************)
\* C19 (decoding the 64-bit length form): for a stream that begins with a
\* frame whose len7 is 127, the decoder does nothing before the bytes
\* [2..10) have arrived; if they hold, as a big-endian unsigned 64-bit
\* integer, a value of 2^53 or more, it raises "Unsupported UInt64 length"
\* once the header has arrived and never emits the frame; otherwise it takes the
\* value as the payload length with payloadOffset 10 (14 when masked) and
\* emits the frame, with its payload, once that many payload bytes have
\* arrived and not before.
C19_Decode64 ==
  LET f == frames[1]
      V == Len(f.payload)
      offset == IF f.masked THEN 14 ELSE 10
  IN  /\ pos < 10 => (listenerCalls = <<>> /\ errorEvents = <<>>)
      /\ (f.ext8 \in TooLong64) =>
           /\ listenerCalls = <<>>
           /\ pos >= offset => errorEvents = <<"Unsupported UInt64 length">>
      /\ (f.ext8 \notin TooLong64) =>
           /\ errorEvents = <<>>
           /\ pos < offset + V => listenerCalls = <<>>
           /\ pos >= offset + V =>
                (Len(listenerCalls) >= 1 /\ listenerCalls[1] = <<f.opcode, f.payload>>)
           /\ (state = 1 /\ listenerCalls = <<>>) =>
                (header[1].payloadLength = V /\ header[1].payloadOffset = offset)

(***************************************************************************)
(* Properties of the decoder, checked under SpecBurst.                     *)
(***************************************************************************)
\* C22 (run to quiescence): every delivery returns, and while no error has
\* been raised the decoder holds no complete frame afterwards: every frame
\* delivered as a whole has been emitted, and either the bytes buffered are
\* fewer than the header needs (state 0) or fewer payload bytes are copied
\* than the header announces (state 1), however many frames a chunk held.
C22_RunToQuiescence ==
  /\ ~thrown
  /\ errorEvents = <<>> =>
       /\ Len(listenerCalls) = Cardinality({i \in 1..Len(frames) : FrameEnd(frames, i) <= pos})
       /\ state = 0 =>
            \/ Len(headerBuffer) < 2
            \/ header # <<>> /\ Len(headerBuffer) < header[1].payloadOffset
       /\ state = 1 => bytesCopied < header[1].payloadLength

(***************************************************************************)
(* Properties of the decoder, checked under SpecErr.                       *)
(***************************************************************************)
\* the error a bad base header is to be reported with: the first of RSV,
\* opcode, FIN that it breaks
FirstViolation(f) ==
  IF f.rsv # 0 THEN "RSV not zero"
  ELSE IF f.opcode \notin OPCODES THEN "Invalid opcode"
  ELSE "Expected non-final packet"

\* C23 (error precedence): once the two base bytes of a bad header have been
\* delivered, one error has been raised for it, and it names the first rule
\* the header breaks in the order RSV, opcode, FIN.
C23_ErrorPrecedence ==
  LET b == Len(frames)
  IN  IF pos >= FrameStart(frames, b) + 2
        THEN errorEvents = <<FirstViolation(frames[b])>>
        ELSE errorEvents = <<>>

(***************************************************************************)
(* Properties of the decoder, checked under SpecCtl.                       *)
(***************************************************************************)
\* C25 (control frame length): a CLOSE, PING or PONG frame with FIN = 1 and
\* a payload of more than 125 bytes raises no error; it is handed to the
\* listener, with its payload, as soon as the payload is complete and not
\* before.
C25_LongControlFrame ==
  /\ errorEvents = <<>>
  /\ ~thrown
  /\ \A i \in 1..Len(frames) :
       (frames[i].opcode \in {CLOSE, PING, PONG} /\ Len(frames[i].payload) > 125) =>
         IF pos >= FrameEnd(frames, i)
           THEN /\ Len(listenerCalls) >= i
                /\ listenerCalls[i] = <<frames[i].opcode, frames[i].payload>>
           ELSE Len(listenerCalls) < i

\* a masked PING frame with 126 bytes of payload came in more than one chunk
\* and was emitted; the frame behind it is still to come
C25_Witness ==
  /\ Len(frames) = 2
  /\ frames[1].opcode = PING
  /\ frames[1].masked
  /\ Len(frames[1].payload) = 126
  /\ split
  /\ pos = FrameEnd(frames, 1)
  /\ listenerCalls = <<<<PING, frames[1].payload>>>>
  /\ errorEvents = <<>>

(***************************************************************************)
(* Properties of the masker, checked under SpecMask.                       *)
(***************************************************************************)
\* C13 (mask involution): one application of _applyMask keeps the length of
\* the buffer and changes no byte in front of the offset, and none at all
\* when the mask is empty; a second application with the same mask and
\* offset gives back the buffer the first one started from.
C13_MaskInvolution ==
  maskIn # <<>> =>
    LET a == maskIn[1]
    IN  /\ Len(masked) >= 1 =>
             /\ Len(masked[1]) = Len(a.payload)
             /\ \A x \in 1..Len(a.payload) :
                  x - 1 < a.offset => masked[1][x] = a.payload[x]
             /\ a.mask = <<>> => masked[1] = a.payload
        /\ Len(masked) = 2 => masked[2] = a.payload

\* a mask of four bytes was applied twice behind an offset, to a buffer that
\* reaches beyond the offset and that the first application changed
C13_Witness ==
  /\ maskIn # <<>>
  /\ Len(masked) = 2
  /\ Len(maskIn[1].mask) = 4
  /\ maskIn[1].offset > 0
  /\ Len(maskIn[1].payload) > maskIn[1].offset
  /\ masked[1] # maskIn[1].payload

(***************************************************************************)
(* Properties of the encoder, checked under SpecEnc.                       *)
(***************************************************************************)
\* C2 (round trip): when the bytes built for (opcode, payload), with or
\* without masking, have been written to a fresh decoder, the listener has
\* been called exactly once, with that opcode and that payload, and no
\* 'error' event has been emitted.
C2_RoundTrip ==
  (built # <<>> /\ pos = Len(stream)) =>
    /\ listenerCalls = <<<<built[1].opcode, built[1].payload>>>>
    /\ errorEvents = <<>>

\* a masked CLOSE frame with a payload of 126 bytes has made the round trip
C2_Witness ==
  /\ built # <<>>
  /\ pos = Len(stream)
  /\ instances[built[1].self]
  /\ built[1].opcode = CLOSE
  /\ Len(built[1].payload) = 126
  /\ Len(listenerCalls) = 1

\* C8 (builders are per-instance): a frame returned by c.build<Op>Frame has
\* the MASK bit, and the room for a mask key, that the isMasking flag of c
\* itself asks for.
C8_PerInstanceBuilders ==
  built # <<>> =>
    LET b == built[1]
        m == instances[b.caller]
        L == Len(b.payload)
    IN  /\ (b.frame[2] >= 128) = m
        /\ Len(b.frame) = 2 + (IF L <= 125 THEN 0 ELSE 2) + (IF m THEN 4 ELSE 0) + L

\* C20 (encoding the 64-bit length form): the frame _buildFrame returns for
\* a payload of length L with 65535 < L < 2^53 has 127 in the low seven
\* bits of byte 1 and L as a big-endian unsigned 64-bit integer in the
\* bytes [2..10); with masking the key is at [10..14); the payload (XORed
\* with the key when masking) follows.
C20_Encode64 ==
  (built # <<>> /\ Len(built[1].payload) > 65535) =>
    LET b == built[1]
        m == instances[b.self]
        p == b.payload
        L == Len(p)
        payloadOffset == IF m THEN 14 ELSE 10
        f == b.frame
    IN  /\ Len(f) = payloadOffset + L
        /\ f[2] % 128 = 127
        /\ SubSeq(f, 3, 10) = UInt64BE(L)
        /\ m => SubSeq(f, 11, 14) = b.mask
        /\ \A i \in 1..L :
             f[payloadOffset + i] =
               IF m THEN BitXor(p[i], b.mask[((i - 1) % 4) + 1]) ELSE p[i]

\* C9 (encoder layout, payload length L <= 65535): the frame _buildFrame
\* returns for opcode, payload p, and masking flag m has length
\* 2 + ext + (m ? 4 : 0) + L with ext = 0 for L <= 125 and 2 otherwise;
\* byte 0 is 0x80 | opcode; byte 1 is (m ? 0x80 : 0) | (L or 126); the
\* extended length is L in big-endian; with masking the key follows it and
\* the bytes behind the key are p[i] XOR key[i mod 4], without masking they
\* are p.
C9_EncoderLayout ==
  built # <<>> =>
    LET b   == built[1]
        m   == instances[b.self]
        p   == b.payload
        L   == Len(p)
        ext == IF L <= 125 THEN 0 ELSE 2
        payloadOffset == 2 + ext + (IF m THEN 4 ELSE 0)
        f   == b.frame
    IN  /\ Len(f) = payloadOffset + L
        /\ f[1] = 128 + b.opcode
        /\ f[2] = (IF m THEN 128 ELSE 0) + (IF L <= 125 THEN L ELSE 126)
        /\ ext = 2 => (f[3] * 256 + f[4] = L /\ f[3] \in 0..255 /\ f[4] \in 0..255)
        /\ m => SubSeq(f, 2 + ext + 1, 2 + ext + 4) = b.mask
        /\ \A i \in 1..L :
             f[payloadOffset + i] =
               IF m THEN BitXor(p[i], b.mask[((i - 1) % 4) + 1]) ELSE p[i]

\* a frame with a payload of 126 bytes was built with masking, under a key
\* that changes the payload
C9_Witness ==
  /\ built # <<>>
  /\ instances[built[1].self]
  /\ Len(built[1].payload) = 126
  /\ built[1].mask = <<255, 128, 1, 254>>

(***************************************************************************)
(* Properties of the WebSocket, checked under SpecWs and SpecWsFair.       *)
(***************************************************************************)
\* the names of the events emitted so far, and how many entries of a
\* sequence lie in a set
EventNames == [i \in 1..Len(wsEvents) |-> wsEvents[i][1]]
Count(s, S) == Cardinality({i \in 1..Len(s) : s[i] \in S})

\* the number of bytes of the response
ResponseEnd == LineEnd(response, Len(response))

\* C14 (masking policy): every frame that send, ping, pong or close writes
\* to the socket is masked: its MASK bit is set and four bytes of mask key
\* stand behind the length, however the WebSocket was constructed.
C14_WritesMasked ==
  \A i \in 1..Len(socketWrites) :
    socketWrites[i].call # "handshake" =>
      /\ BitAnd(socketWrites[i].bytes[2], MASK) = MASK
      /\ Len(socketWrites[i].bytes) >= 6

\* C15 (listener to events): every frame the decoder has completed shows as
\* one event: 'message' for each TEXT and each BINARY frame, 'ping' for each
\* PING, 'pong' for each PONG, and for each CLOSE a 'close' that carries the
\* frame's payload.
C15_FrameEvents ==
  LET opcodes == [i \in 1..Len(listenerCalls) |-> listenerCalls[i][1]]
  IN  /\ Count(EventNames, {"message"}) = Count(opcodes, {TEXT, BINARY})
      /\ Count(EventNames, {"ping"}) = Count(opcodes, {PING})
      /\ Count(EventNames, {"pong"}) = Count(opcodes, {PONG})
      /\ \A i \in 1..Len(listenerCalls) :
           listenerCalls[i][1] = CLOSE =>
             \E j \in 1..Len(wsEvents) :
               /\ wsEvents[j][1] = "close"
               /\ wsEvents[j][2] = listenerCalls[i][2]

\* C16 (handshake verification): a WebSocket built from a url is OPEN, or has
\* a codec, only if the response starts with the 101 status line and has a
\* Sec-WebSocket-Accept header with the value that belongs to the key sent.
C16_HandshakeVerified ==
  (opts[1].via = "url" /\ (readyState = OPEN \/ rfc6455Protocol # <<>>)) =>
    /\ response[1].is101
    /\ \E i \in 1..Len(response) : response[i].hasAccept /\ response[i].acceptOk

\* C17 (bytes after the response): once a 101 response has been taken, the
\* bytes written to the decoder are the bytes delivered behind the response,
\* each once and in order, and no byte of the response.
C17_FedAfterResponse ==
  (response = <<>> \/ (response[1].is101 /\ ~thrown)) =>
    fed = SubSeq(stream, ResponseEnd + 1, pos)

\* C18 (decoder error, then close): after an 'error' event of the decoder
\* the WebSocket emits 'error' and, later, 'close'.
C18_ErrorThenClose ==
  (errorEvents # <<>>) ~>
    (\E i, j \in 1..Len(wsEvents) :
       i < j /\ wsEvents[i][1] = "error" /\ wsEvents[j][1] = "close")

\* a call of send, ping, pong or close
MethodCall ==
  \/ \E data \in WsData : Send(data)
  \/ \E call \in {"ping", "pong"}, data \in WsData \cup {<<>>} : PingPong(call, data)
  \/ \E code \in {<<>>, <<49, 48, 48, 49>>} : Close(code)

\* C26 (closed facade writes nothing): a call of send, ping, pong or close
\* made while readyState is CLOSING or CLOSED writes nothing to the socket
\* and leaves readyState as it is; and a CLOSE frame written by close() is
\* the last write to the socket, so there is at most one and no frame
\* behind it.
C26_ClosedWritesNothing ==
  /\ [][(readyState \in {CLOSING, CLOSED} /\ MethodCall) =>
         (socketWrites' = socketWrites /\ readyState' = readyState)]_vars
  /\ [](\A i \in 1..Len(socketWrites) :
          socketWrites[i].call = "close" => i = Len(socketWrites))

\* close() has written its CLOSE frame and send was called after that: it
\* returned, and the CLOSE frame is still the last write
C26_Witness ==
  /\ readyState \in {CLOSING, CLOSED}
  /\ lastCall = "send"
  /\ ~apiThrew
  /\ socketWrites # <<>>
  /\ socketWrites[Len(socketWrites)].call = "close"

\* C27 (no frame before OPEN): a call of send, ping, pong or close writes to
\* the socket only when readyState is OPEN, and a call made while readyState
\* is CONNECTING writes nothing and does not end with an exception.
C27_NoFrameBeforeOpen ==
  [][MethodCall =>
       /\ socketWrites' # socketWrites => readyState = OPEN
       /\ readyState = CONNECTING => (socketWrites' = socketWrites /\ ~apiThrew')]_vars

\* C28 (one 'close' event): whatever ends the connection, and in whatever
\* order, the WebSocket emits 'close' at most once.
C28_CloseOnce == Count(EventNames, {"close"}) <= 1

====
